---- MODULE Spec2Model ----
(***************************************************************************)
(* Model of helper_functions/indicators.py (rsi, _calculate_point_rsi) and *)
(* helper_functions/ingestion.py (get_price_data_and_rsi).                 *)
(*                                                                         *)
(* Floating point values are modelled as exact fractions <<n, d>> with     *)
(* d >= 0 in lowest terms; d = 0 holds the IEEE specials numpy produces    *)
(* instead of raising: <<0,0>> is NaN, <<1,0>> is +inf, <<-1,0>> is -inf.  *)
(* Python's 0-based index k is the 1-based index k + 1 of a TLA+ sequence. *)
(***************************************************************************)
EXTENDS Integers, Sequences, FiniteSets, TLC

\* ---------------------------------------------------------------- bounds
MaxLen == 4
MaxPrice == 2
MaxPeriod == 3
MaxTickers == 4
MaxRows == 3

\* ------------------------------------------------------ float arithmetic
Abs(x) == IF x < 0 THEN -x ELSE x

Sign(x) == IF x < 0 THEN -1 ELSE IF x > 0 THEN 1 ELSE 0

RECURSIVE GCD(_, _)
GCD(a, b) == IF b = 0 THEN a ELSE GCD(b, a % b)

Norm(n, d) ==
  IF d = 0 THEN <<Sign(n), 0>>
  ELSE LET g == GCD(Abs(n), Abs(d))
           s == Sign(d)
       IN <<(s * n) \div g, (s * d) \div g>>

NaN == <<0, 0>>

IsNaN(a) == a = NaN

FromInt(k) == <<k, 1>>

RAdd(a, b) ==
  IF a[2] = 0 /\ b[2] = 0
  THEN (IF a = b THEN a ELSE NaN)
  ELSE Norm(a[1] * b[2] + b[1] * a[2], a[2] * b[2])

RNeg(a) == <<-a[1], a[2]>>

RSub(a, b) == RAdd(a, RNeg(b))

RMul(a, b) == Norm(a[1] * b[1], a[2] * b[2])

RDiv(a, b) == RMul(a, Norm(b[2], b[1]))

\* a == b, a != b, a <= b on floats: every comparison with NaN is False
\* except !=
REq(a, b) == ~IsNaN(a) /\ ~IsNaN(b) /\ a = b

RNe(a, b) == ~REq(a, b)

RLe(a, b) ==
  /\ ~IsNaN(a)
  /\ ~IsNaN(b)
  /\ IF a[2] = 0 /\ b[2] = 0 THEN a[1] <= b[1]
     ELSE a[1] * b[2] <= b[1] * a[2]

\* ------------------------------------------------------------ indicators
\* _calculate_point_rsi(mean_upward, mean_downward)
point_rsi_swapped(mean_upward, mean_downward) ==
  IF RNe(mean_upward, FromInt(0))
  THEN LET relative_strength == RDiv(mean_downward, mean_upward)
       IN RSub(FromInt(100), RDiv(FromInt(100), RAdd(FromInt(1), relative_strength)))
  ELSE FromInt(100)

_calculate_point_rsi(mean_upward, mean_downward) ==
  IF RNe(mean_downward, FromInt(0))
  THEN LET relative_strength == RDiv(mean_upward, mean_downward)
       IN RSub(FromInt(100), RDiv(FromInt(100), RAdd(FromInt(1), relative_strength)))
  ELSE FromInt(100)

\* np.diff(prices): one entry fewer than prices, none for an empty input
diff(prices) ==
  IF Len(prices) = 0 THEN <<>>
  ELSE [k \in 1..(Len(prices) - 1) |-> prices[k + 1] - prices[k]]

\* np.where(deltas > 0, deltas, 0)
upward_of(deltas) ==
  [k \in 1..Len(deltas) |-> IF deltas[k] > 0 THEN deltas[k] ELSE 0]

\* np.where(deltas < 0, -deltas, 0)
downward_signed(deltas) ==
  [k \in 1..Len(deltas) |-> IF deltas[k] < 0 THEN deltas[k] ELSE 0]

downward_of(deltas) ==
  [k \in 1..Len(deltas) |-> IF deltas[k] < 0 THEN -deltas[k] ELSE 0]

\* np.zeros(n)
zeros(n) == [k \in 1..n |-> FromInt(0)]

\* changes[:period] for period >= 0: the first min(period, len) entries
slice_to(changes, period) ==
  SubSeq(changes, 1, IF period < Len(changes) THEN period ELSE Len(changes))

RECURSIVE SumSeq(_)
SumSeq(s) == IF s = <<>> THEN 0 ELSE s[1] + SumSeq(Tail(s))

\* np.mean(a): the mean of an empty slice is NaN (a warning, no exception)
mean(a) == RDiv(FromInt(SumSeq(a)), FromInt(Len(a)))

\* the seed of the carried mean, mean(changes[:period])
seed_over_prices(changes, period) == mean(slice_to(changes, period - 1))

seed_mean(changes, period) == mean(slice_to(changes, period))

\* one step of the loop body: (m * (period - 1) + changes[i - 1]) / period,
\* i being the 0-based loop index, so changes[i - 1] is entry i of the sequence
update_mean(m, changes, period, i) ==
  RDiv(RAdd(RMul(m, FromInt(period - 1)), FromInt(changes[i])), FromInt(period))

\* the frame of rsi(prices, period) after lines 63-74: np.asarray, np.diff,
\* the two np.where, np.zeros, the two seed means and the store rsi[period],
\* which raises IndexError when period is not an index of the output
rsi_begin_sentinel(prices, period) ==
  LET deltas == diff(prices)
      mu == seed_mean(upward_of(deltas), period)
      md == seed_mean(downward_of(deltas), period)
  IN IF period >= Len(prices)
     THEN [raised |-> "none", rsi |-> zeros(Len(prices)),
           mean_upward |-> mu, mean_downward |-> md, i |-> period + 1]
     ELSE [raised |-> "none",
           rsi |-> [zeros(Len(prices)) EXCEPT ![period + 1] = _calculate_point_rsi(mu, md)],
           mean_upward |-> mu, mean_downward |-> md, i |-> period + 1]

rsi_begin(prices, period) ==
  LET deltas == diff(prices)
      upward_changes == upward_of(deltas)
      downward_changes == downward_of(deltas)
      mu == seed_mean(upward_changes, period)
      md == seed_mean(downward_changes, period)
  IN IF period >= Len(prices)
     THEN [raised |-> "IndexError", rsi |-> <<>>,
           mean_upward |-> mu, mean_downward |-> md, i |-> period]
     ELSE [raised |-> "none",
           rsi |-> [zeros(Len(prices)) EXCEPT ![period + 1] = _calculate_point_rsi(mu, md)],
           mean_upward |-> mu, mean_downward |-> md, i |-> period + 1]

\* one iteration of the loop for i in range(period + 1, len(prices))
rsi_step(f, prices, period) ==
  LET deltas == diff(prices)
      mu == update_mean(f.mean_upward, upward_of(deltas), period, f.i)
      md == update_mean(f.mean_downward, downward_of(deltas), period, f.i)
  IN [raised |-> "none",
      rsi |-> [f.rsi EXCEPT ![f.i + 1] = _calculate_point_rsi(mu, md)],
      mean_upward |-> mu, mean_downward |-> md, i |-> f.i + 1]

RECURSIVE rsi_loop(_, _, _)
rsi_loop(f, prices, period) ==
  IF f.i < Len(prices) THEN rsi_loop(rsi_step(f, prices, period), prices, period)
  ELSE f

\* rsi(prices, period) as one call: the raised exception, or the returned array
rsi(prices, period) ==
  LET f == rsi_begin(prices, period)
  IN IF f.raised # "none" THEN f ELSE rsi_loop(f, prices, period)

\* ------------------------------------------------------------ inputs
\* the docstring example of rsi
ScenarioPrices == <<44, 46, 45, 47, 44, 43, 42, 43, 44, 45>>

ScenarioPeriod == 5

RECURSIVE SeqsUpTo(_, _)
SeqsUpTo(S, n) ==
  IF n = 0 THEN {<<>>}
  ELSE LET shorter == SeqsUpTo(S, n - 1)
       IN shorter \cup {Append(s, x) : s \in {t \in shorter : Len(t) = n - 1}, x \in S}

PriceInputs == SeqsUpTo(0..MaxPrice, MaxLen) \cup {ScenarioPrices}

\* periods from 0 up: 0 is the invalid period the code accepts; negative
\* periods (Python's wrap-around indexing) are not among the inputs
PeriodInputs == (0..MaxPeriod) \cup {ScenarioPeriod}

\* ------------------------------------------------------------ state
VARIABLES
  \* one call of rsi
  prices, period, rpc, rsi_out, mean_upward, mean_downward, i,
  \* one call of get_price_data_and_rsi: its arguments and locals, the
  \* notifications logged, the rows each yf.download returned so far, the
  \* position in the function and the exception it raised
  tickers, rsi_periods, remove_zeros, logger_batch_size,
  yfinance_progress, tickers_downloaded, output_list, output_df,
  log, fetched, pc, exc

rvars == <<prices, period, rpc, rsi_out, mean_upward, mean_downward, i>>

avars == <<tickers, rsi_periods, remove_zeros, logger_batch_size,
           yfinance_progress, tickers_downloaded, output_list, output_df,
           log, fetched, pc, exc>>

vars == <<rvars, avars>>

\* the aggregator is not running
AggIdle ==
  /\ tickers = [kind |-> "list", v |-> <<>>]
  /\ rsi_periods = [kind |-> "list", v |-> <<>>]
  /\ remove_zeros = TRUE
  /\ logger_batch_size = <<>>
  /\ yfinance_progress = TRUE
  /\ tickers_downloaded = 0
  /\ output_list = <<>>
  /\ output_df = [columns |-> {}, rsi_columns |-> {}, rows |-> <<>>]
  /\ log = <<>>
  /\ fetched = <<>>
  /\ pc = "idle"
  /\ exc = "none"

\* no call of rsi is being followed step by step
RsiIdle ==
  /\ prices = <<>>
  /\ period = 0
  /\ rpc = "idle"
  /\ rsi_out = <<>>
  /\ mean_upward = NaN
  /\ mean_downward = NaN
  /\ i = 0

\* ------------------------------------------------------- rsi, step by step
InitRsi ==
  /\ prices \in PriceInputs
  /\ period \in PeriodInputs
  /\ rpc = "call"
  /\ rsi_out = <<>>
  /\ mean_upward = NaN
  /\ mean_downward = NaN
  /\ i = 0
  /\ AggIdle

\* lines 63-74
RsiCall ==
  /\ rpc = "call"
  /\ LET f == rsi_begin(prices, period)
     IN /\ rpc' = IF f.raised = "none" THEN "loop" ELSE f.raised
        /\ rsi_out' = f.rsi
        /\ mean_upward' = f.mean_upward
        /\ mean_downward' = f.mean_downward
        /\ i' = f.i
  /\ UNCHANGED <<prices, period, avars>>

\* lines 76-84, one iteration
RsiIterate ==
  /\ rpc = "loop"
  /\ i < Len(prices)
  /\ LET f == rsi_step([raised |-> "none", rsi |-> rsi_out, mean_upward |-> mean_upward,
                        mean_downward |-> mean_downward, i |-> i], prices, period)
     IN /\ rsi_out' = f.rsi
        /\ mean_upward' = f.mean_upward
        /\ mean_downward' = f.mean_downward
        /\ i' = f.i
  /\ UNCHANGED <<prices, period, rpc, avars>>

\* line 86
RsiReturn ==
  /\ rpc = "loop"
  /\ i >= Len(prices)
  /\ rpc' = "returned"
  /\ UNCHANGED <<prices, period, rsi_out, mean_upward, mean_downward, i, avars>>

NextRsi == RsiCall \/ RsiIterate \/ RsiReturn

SpecRsi == InitRsi /\ [][NextRsi]_vars

RsiTypeOK ==
  /\ rpc \in {"idle", "call", "loop", "returned", "IndexError"}
  /\ rpc = "returned" => rsi_out = rsi(prices, period).rsi
  /\ rpc = "IndexError" => rsi(prices, period).raised = "IndexError"

\* ------------------------------------------- get_price_data_and_rsi
\* The columns yf.download returns (the library is outside the repository);
\* only the Close values are read, the other price columns pass through.
YfColumns == {"Open", "High", "Low", "Close", "Volume"}

\* The close the data source holds for ticker t on its d-th bar (d from 0);
\* the date range of a call decides how many bars a download returns.
MarketClose(t, d) == 1 + ((t + d * d) % 3)

NoFrame == [columns |-> {}, rsi_columns |-> {}, rows |-> <<>>]

\* the argument values of a call: a single ticker or a list of distinct
\* ones, a single period or a list of one or two, a flag, and None (<<>>)
\* or an integer (<<B>>) as batch size
TickerInputs ==
  {[kind |-> "str", v |-> 1]} \cup
  {[kind |-> "list", v |-> [k \in 1..n |-> k]] : n \in 0..MaxTickers}

PeriodListInputs ==
  {[kind |-> "int", v |-> p] : p \in 0..MaxPeriod} \cup
  {[kind |-> "list", v |-> <<p>>] : p \in 0..MaxPeriod} \cup
  {[kind |-> "list", v |-> <<p, q>>] : p \in 0..MaxPeriod, q \in 0..MaxPeriod}

BatchInputs == {<<>>} \cup {<<b>> : b \in (-1)..(MaxTickers + 1)}

Init ==
  /\ RsiIdle
  /\ tickers \in TickerInputs
  /\ rsi_periods \in PeriodListInputs
  /\ remove_zeros \in BOOLEAN
  /\ logger_batch_size \in BatchInputs
  /\ yfinance_progress = TRUE
  /\ tickers_downloaded = 0
  /\ output_list = <<>>
  /\ output_df = NoFrame
  /\ log = <<>>
  /\ fetched = <<>>
  /\ pc = "start"
  /\ exc = "none"

\* line 67: logger_batch_size > len(tickers)
batch_unchecked(batch_size, n) == FALSE

batch_size_exceeds(batch_size, n) == batch_size > n

\* lines 60-76: the two isinstance normalisations, the check of the batch
\* size, the progress flag and counter, the empty output_list
Validate ==
  /\ pc = "start"
  /\ LET tl == IF tickers.kind = "str" THEN <<tickers.v>> ELSE tickers.v
     IN /\ tickers' = [kind |-> "list", v |-> tl]
        /\ rsi_periods' = [kind |-> "list",
                           v |-> IF rsi_periods.kind = "int" THEN <<rsi_periods.v>>
                                 ELSE rsi_periods.v]
        /\ IF logger_batch_size # <<>>
           THEN IF batch_size_exceeds(logger_batch_size[1], Len(tl))
                THEN /\ pc' = "raised"
                     /\ exc' = "ValueError"
                     /\ UNCHANGED <<yfinance_progress, tickers_downloaded>>
                ELSE /\ yfinance_progress' = FALSE
                     /\ tickers_downloaded' = 0
                     /\ pc' = "loop"
                     /\ exc' = "none"
           ELSE /\ yfinance_progress' = TRUE
                /\ pc' = "loop"
                /\ exc' = "none"
                /\ UNCHANGED tickers_downloaded
  /\ output_list' = <<>>
  /\ UNCHANGED <<remove_zeros, logger_batch_size, output_df, log, fetched, rvars>>

RECURSIVE MaxOf(_)
MaxOf(s) ==
  IF Len(s) = 1 THEN s[1]
  ELSE LET m == MaxOf(Tail(s)) IN IF s[1] > m THEN s[1] ELSE m

RECURSIVE MinOf(_)
MinOf(s) ==
  IF Len(s) = 1 THEN s[1]
  ELSE LET m == MinOf(Tail(s)) IN IF s[1] < m THEN s[1] ELSE m

\* data.iloc[k:] for k >= 0
iloc_from(rows, k) ==
  IF k >= Len(rows) THEN <<>> ELSE SubSeq(rows, k + 1, Len(rows))

\* line 88: data.iloc[max(rsi_periods):]
trim_min(rows, periods) == iloc_from(rows, MinOf(periods))

trim(rows, periods) == iloc_from(rows, MaxOf(periods))

\* line 92: tickers_downloaded % logger_batch_size == 0, for a batch size
\* other than 0 (a remainder is 0 whatever the sign of the divisor)
batch_every(downloaded, batch_size) == TRUE

batch_complete(downloaded, batch_size) == downloaded % Abs(batch_size) = 0

\* lines 79-85: the frame of one ticker after the download of n bars and
\* the assignment of the Ticker and rsi_<period> columns; raised is
\* "IndexError" when rsi raises for one of the periods
frame_of(t, n, periods) ==
  LET close == [d \in 1..n |-> MarketClose(t, d - 1)]
      P == {periods[k] : k \in 1..Len(periods)}
      R == [p \in P |-> rsi(close, p)]
  IN IF \E p \in P : R[p].raised # "none"
     THEN [raised |-> "IndexError", frame |-> NoFrame]
     ELSE [raised |-> "none",
           frame |-> [columns |-> YfColumns \cup {"Ticker"},
                      rsi_columns |-> P,
                      rows |-> [d \in 1..n |->
                                  [Ticker |-> t, Date |-> d - 1, Close |-> close[d],
                                   rsi |-> [p \in P |-> R[p].rsi[d]]]]]]

\* lines 78-95: the loop body for the next ticker, the download of some
\* number of bars included
ProcessTicker ==
  /\ pc = "loop"
  /\ Len(fetched) < Len(tickers.v)
  /\ \E n \in 0..MaxRows :
       LET t == tickers.v[Len(fetched) + 1]
           made == frame_of(t, n, rsi_periods.v)
           data == IF remove_zeros
                   THEN [made.frame EXCEPT !.rows = trim(@, rsi_periods.v)]
                   ELSE made.frame
       IN /\ fetched' = Append(fetched, n)
          /\ IF made.raised # "none"
             THEN /\ pc' = "raised"
                  /\ exc' = made.raised
                  /\ UNCHANGED <<tickers_downloaded, log, output_list>>
             ELSE IF yfinance_progress
             THEN /\ output_list' = Append(output_list, data)
                  /\ UNCHANGED <<pc, exc, tickers_downloaded, log>>
             ELSE /\ tickers_downloaded' = tickers_downloaded + 1
                  /\ IF logger_batch_size[1] = 0
                     THEN /\ pc' = "raised"
                          /\ exc' = "ZeroDivisionError"
                          /\ UNCHANGED <<log, output_list>>
                     ELSE /\ log' = IF batch_complete(tickers_downloaded + 1,
                                                      logger_batch_size[1])
                                    THEN Append(log, <<tickers_downloaded + 1,
                                                       Len(tickers.v)>>)
                                    ELSE log
                          /\ output_list' = Append(output_list, data)
                          /\ UNCHANGED <<pc, exc>>
  /\ UNCHANGED <<tickers, rsi_periods, remove_zeros, logger_batch_size,
                 yfinance_progress, output_df, rvars>>

RECURSIVE concat_rows(_)
concat_rows(frames) ==
  IF frames = <<>> THEN <<>> ELSE frames[1].rows \o concat_rows(Tail(frames))

\* lines 97-101: pd.concat raises ValueError on an empty list; otherwise the
\* frames' rows in order, keyed by (Ticker, Date)
Assemble ==
  /\ pc = "loop"
  /\ Len(fetched) = Len(tickers.v)
  /\ IF output_list = <<>>
     THEN /\ pc' = "raised"
          /\ exc' = "ValueError"
          /\ UNCHANGED output_df
     ELSE /\ pc' = "returned"
          /\ output_df' = [columns |-> output_list[1].columns,
                           rsi_columns |-> output_list[1].rsi_columns,
                           rows |-> concat_rows(output_list)]
          /\ UNCHANGED exc
  /\ UNCHANGED <<tickers, rsi_periods, remove_zeros, logger_batch_size,
                 yfinance_progress, tickers_downloaded, output_list, log,
                 fetched, rvars>>

Next == Validate \/ ProcessTicker \/ Assemble

Spec == Init /\ [][Next]_vars

TypeOK ==
  /\ pc \in {"idle", "start", "loop", "returned", "raised"}
  /\ exc \in {"none", "ValueError", "IndexError", "ZeroDivisionError"}
  /\ (pc = "raised") = (exc # "none")
  /\ Len(output_list) <= Len(fetched)

\* ------------------------------------------------ properties of rsi
\* the magnitudes of delta k (prices[k] - prices[k-1] in 0-based indices),
\* read off the prices
Magnitude(dir, k) ==
  LET d == prices[k + 1] - prices[k]
  IN IF dir = "up" THEN (IF d > 0 THEN d ELSE 0) ELSE (IF d < 0 THEN -d ELSE 0)

RECURSIVE SumMagnitudes(_, _)
SumMagnitudes(dir, n) ==
  IF n = 0 THEN 0 ELSE Magnitude(dir, n) + SumMagnitudes(dir, n - 1)

\* the mean the recurrence carries when it emits the entry at 0-based index k
RECURSIVE ExpectedMean(_, _)
ExpectedMean(dir, k) ==
  IF k = period
  THEN RDiv(FromInt(SumMagnitudes(dir, period)), FromInt(period))
  ELSE RDiv(RAdd(RMul(ExpectedMean(dir, k - 1), FromInt(period - 1)),
                 FromInt(Magnitude(dir, k))),
            FromInt(period))

ExpectedPoint(u, d) ==
  IF d = FromInt(0) THEN FromInt(100)
  ELSE RSub(FromInt(100), RDiv(FromInt(100), RAdd(FromInt(1), RDiv(u, d))))

ValidCall == period >= 1 /\ Len(prices) > period

\* C1: for p >= 1 and N > p prices, rsi returns N entries: 0 at every index
\* below p, at index p the point RSI of the averages of the first p deltas'
\* magnitudes, and after it the point RSI of the means updated left to right;
\* the docstring example has seed means 0.8 and 1.0 and RSI[5] = 100 - 100/1.8
C1_RsiRecurrence ==
  /\ (rpc = "returned" /\ ValidCall) =>
       /\ Len(rsi_out) = Len(prices)
       /\ \A k \in 0..(Len(prices) - 1) :
            rsi_out[k + 1] =
              IF k < period THEN FromInt(0)
              ELSE ExpectedPoint(ExpectedMean("up", k), ExpectedMean("down", k))
  /\ (prices = ScenarioPrices /\ period = ScenarioPeriod /\ rpc = "loop"
        /\ i = ScenarioPeriod + 1) =>
       /\ mean_upward = <<4, 5>>
       /\ mean_downward = <<1, 1>>
  /\ (prices = ScenarioPrices /\ period = ScenarioPeriod /\ rpc = "returned") =>
       rsi_out[ScenarioPeriod + 1] = RSub(FromInt(100), RDiv(FromInt(100), <<9, 5>>))

C1_Witness ==
  /\ rpc = "returned"
  /\ prices = ScenarioPrices
  /\ period = ScenarioPeriod
  /\ rsi_out[6] = <<400, 9>>
  /\ Len(rsi_out) = 10

\* C2: for p >= 1 and more than p prices, the carried means are never
\* negative and every entry at an index >= p lies in [0, 100]
C2_RsiRange ==
  (rpc \in {"loop", "returned"} /\ ValidCall) =>
    /\ RLe(FromInt(0), mean_upward)
    /\ RLe(FromInt(0), mean_downward)
    /\ \A k \in period..(i - 1) :
         RLe(FromInt(0), rsi_out[k + 1]) /\ RLe(rsi_out[k + 1], FromInt(100))

C2_Witness ==
  /\ rpc = "returned"
  /\ ValidCall
  /\ Len(prices) > period + 1
  /\ \E k \in (period + 1)..(Len(prices) - 1) :
       /\ rsi_out[k + 1] # FromInt(0)
       /\ rsi_out[k + 1] # FromInt(100)
       /\ RLe(FromInt(0), rsi_out[k + 1])
       /\ RLe(rsi_out[k + 1], FromInt(100))

NonDecreasing == \A k \in 1..(Len(prices) - 1) : prices[k] <= prices[k + 1]

\* C3: on non-decreasing prices (flat ones included) mean_downward stays 0
\* and every entry at an index >= p is exactly 100
C3_MonotoneIsHundred ==
  (rpc \in {"loop", "returned"} /\ ValidCall /\ NonDecreasing) =>
    /\ mean_downward = FromInt(0)
    /\ \A k \in period..(i - 1) : rsi_out[k + 1] = FromInt(100)

C3_Witness ==
  /\ rpc = "returned"
  /\ ValidCall
  /\ NonDecreasing
  /\ Len(prices) > period + 1
  /\ prices[1] < prices[Len(prices)]
  /\ \A k \in period..(Len(prices) - 1) : rsi_out[k + 1] = FromInt(100)

HasBatch == logger_batch_size # <<>>

BatchSize == logger_batch_size[1]

Running == pc \notin {"idle", "start"}

Total == Len(tickers.v)

RequestedPeriods ==
  IF rsi_periods.kind = "int" THEN {rsi_periods.v}
  ELSE {rsi_periods.v[k] : k \in 1..Len(rsi_periods.v)}

LargestPeriod == CHOOSE m \in RequestedPeriods : \A p \in RequestedPeriods : p <= m

\* C4: a batch size above the number of tickers raises ValueError in the
\* validation, and no download has been made when it is raised
C4_BatchAboveTickersRejected ==
  (Running /\ HasBatch /\ BatchSize > Total) =>
    /\ pc = "raised"
    /\ exc = "ValueError"
    /\ fetched = <<>>
    /\ output_list = <<>>

C4_Witness ==
  /\ pc = "raised"
  /\ exc = "ValueError"
  /\ HasBatch
  /\ Total >= 1
  /\ BatchSize = Total + 1
  /\ fetched = <<>>

\* C5 as stated: every ticker's frame has a Return column, and with
\* remove_zeros disabled it keeps every fetched row, the first period values
\* of each RSI column being 0
C5_Original ==
  \A k \in 1..Len(output_list) :
    /\ "Return" \in output_list[k].columns
    /\ ~remove_zeros =>
         /\ Len(output_list[k].rows) = fetched[k]
         /\ \A p \in RequestedPeriods : \A d \in 1..p :
              output_list[k].rows[d].rsi[p] = FromInt(0)

\* C6: with remove_zeros the frame appended for a ticker is its fetched rows
\* without the first max(periods), so no row of the result sits at a position
\* below a requested period; without remove_zeros every fetched row is kept
C6_TrimDropsWarmUp ==
  /\ \A k \in 1..Len(output_list) :
       LET rows == output_list[k].rows
           dropped == IF remove_zeros THEN LargestPeriod ELSE 0
       IN /\ output_list[k].rsi_columns = RequestedPeriods
          /\ Len(rows) = fetched[k] - dropped
          /\ \A j \in 1..Len(rows) :
               /\ rows[j].Ticker = tickers.v[k]
               /\ rows[j].Date = dropped + j - 1
               /\ remove_zeros => \A p \in RequestedPeriods : rows[j].Date >= p
  /\ pc = "returned" =>
       /\ output_df.rows = concat_rows(output_list)
       /\ remove_zeros =>
            \A j \in 1..Len(output_df.rows) : \A p \in RequestedPeriods :
              output_df.rows[j].Date >= p

C6_Witness ==
  /\ pc = "returned"
  /\ remove_zeros
  /\ rsi_periods.v = <<1, 2>>
  /\ Total = 2
  /\ fetched = <<3, 3>>
  /\ Len(output_df.rows) = 2
  /\ output_df.rows[1].Date = 2
  /\ output_df.rows[2].Ticker = 2

\* C7: with a batch size B, 1 <= B <= total, the counter follows the tickers
\* completed one by one and the log holds exactly one notification
\* <<k, total>> for every multiple k of B reached; with no batch size the log
\* stays empty
C7_NotificationsAtMultiples ==
  /\ (Running /\ HasBatch /\ BatchSize >= 1 /\ BatchSize <= Total) =>
       /\ tickers_downloaded = Len(output_list)
       /\ log = [j \in 1..(tickers_downloaded \div BatchSize) |->
                   <<j * BatchSize, Total>>]
  /\ ~HasBatch => log = <<>>

C7_Witness ==
  /\ pc = "returned"
  /\ HasBatch
  /\ BatchSize = 2
  /\ Total = 4
  /\ log = << <<2, 4>>, <<4, 4>> >>

\* C8 as stated: a requested period below 1 is rejected before any download,
\* so with such a period nothing is ever fetched and nothing is returned
C8_Original ==
  (\E p \in RequestedPeriods : p < 1) =>
    /\ fetched = <<>>
    /\ pc # "returned"

\* C10 as stated: a batch size that is not a positive integer is rejected
\* before any download, and progress reporting never fails a running batch
C10_Original ==
  /\ (HasBatch /\ BatchSize < 1) => fetched = <<>>
  /\ exc # "ZeroDivisionError"

====
